---- MODULE Spec2Model ----
(***************************************************************************)
(* Model of the Itho RFT remote (src/IthoRFT/remote.py, class              *)
(* IthoRFTRemote): the pairing handshake, the polling worker _loop_task,   *)
(* the status decoder _parse_status and the outgoing frame encoders        *)
(* pair(), command() and request_data().                                   *)
(*                                                                         *)
(* Text is modelled as sequences of characters: a decimal or hex digit is  *)
(* its value 0..15 and the dash of "---" and "--:------" is -1.  An        *)
(* address "CC:IIIIII" is the record of its two parts, as split(":")       *)
(* yields them.                                                            *)
(***************************************************************************)
EXTENDS Integers, Sequences, FiniteSets, TLC

VARIABLES
    remote_address,   \* self.remote_address
    unit_address,     \* self.unit_address (None when not paired)
    is_pairing,       \* self.is_pairing
    pairing_timeout,  \* self.pairing_timeout (the deadline)
    sequence_number,  \* self.sequence_number
    pair_callback,    \* self.pair_callback is not None
    data_callback,    \* self.data_callback is not None
    data,             \* self.data, the cached status report
    task,             \* self.task is not None
    pc,               \* where the _loop_task coroutine stands
    cancel,           \* task.cancel() was requested and not yet delivered
    now,              \* time.time()
    op,               \* the encoder call the last step made, if it made one
    line,             \* the line _receive_data() returned in the last step, if any
    tx,               \* what the last step wrote to the serial connection
    calls,            \* the callbacks the last step invoked, in order
    log               \* what _loop_task logged at info or warning level in the last step

vars == <<remote_address, unit_address, is_pairing, pairing_timeout,
          sequence_number, pair_callback, data_callback, data, task, pc,
          cancel, now, op, line, tx, calls, log>>

core == <<remote_address, unit_address, is_pairing, pairing_timeout,
          sequence_number, data>>

-----------------------------------------------------------------------------
(* Bounds of the model *)

MaxTime == 3

MaxSeq == 2

SeqLimit == 1001

(* IthoRFT.const.TIMEOUT_PAIRING, in ticks of the model's clock *)
TIMEOUT_PAIRING == 1

-----------------------------------------------------------------------------
(* Text *)

RECURSIVE DecDigits(_)
DecDigits(n) == IF n < 10 THEN <<n>> ELSE Append(DecDigits(n \div 10), n % 10)

RECURSIVE HexDigits(_)
HexDigits(n) == IF n < 16 THEN <<n>> ELSE Append(HexDigits(n \div 16), n % 16)

RECURSIVE ZeroPad(_, _)
ZeroPad(s, width) == IF Len(s) >= width THEN s ELSE ZeroPad(<<0>> \o s, width)

(* f"{n:03}" *)
Fmt03(n) == ZeroPad(DecDigits(n), 3)

(* f"{n:X}" *)
FmtX(n) == HexDigits(n)

RECURSIVE IntOf(_, _)
IntOf(s, base) ==
    IF s = <<>> THEN 0
    ELSE IntOf(SubSeq(s, 1, Len(s) - 1), base) * base + s[Len(s)]

(* int(text) of a decimal text *)
IntDec(s) == IntOf(s, 10)

(* Python's pos[a:b] on a text, 0-based, clipped to the text *)
Slice(s, a, b) ==
    LET hi == IF b < Len(s) THEN b ELSE Len(s)
    IN  IF a >= hi THEN <<>> ELSE SubSeq(s, a + 1, hi)

-----------------------------------------------------------------------------
(* Addresses *)

Addr(c, i) == [cls |-> c, id |-> i]

(* "--:------" *)
NoAddr == Addr(<<-1, -1>>, <<-1, -1, -1, -1, -1, -1>>)

(* Python's None as the value of unit_address; str(None) is not an address *)
None == Addr(<<>>, <<>>)

(* "29:012345" *)
Remote1 == Addr(<<2, 9>>, <<0, 1, 2, 3, 4, 5>>)

(* "18:126620" *)
Unit1 == Addr(<<1, 8>>, <<1, 2, 6, 6, 2, 0>>)

(* "18:012345" *)
Unit2 == Addr(<<1, 8>>, <<0, 1, 2, 3, 4, 5>>)

-----------------------------------------------------------------------------
(* Outgoing frames *)

Dashes3 == <<-1, -1, -1>>

OutFrame(verb, seq, a1, a2, a3, code, len, payload) ==
    [VERB |-> verb, SEQNR |-> seq, ADDR1 |-> a1, ADDR2 |-> a2, ADDR3 |-> a3,
     CODE |-> code, PAYLEN |-> len, PAYLOAD |-> payload]

(* remote_address_int of pair() *)
RemoteAddressInt(addr) == IntDec(addr.cls) * (2 ^ 18) + IntDec(addr.id)

(* the pairing broadcast of pair() *)
PairFrame(seq, remote) ==
    OutFrame(" I", Fmt03(seq), NoAddr, NoAddr, remote, "1FC9", <<0, 1, 2>>,
             <<6, 3, 2, 2, 15, 8>> \o FmtX(RemoteAddressInt(remote))
             \o <<0, 1, 1, 0, 14, 0>> \o FmtX(RemoteAddressInt(remote)))

CommandNames == {"night", "auto", "low", "high", "timer10", "timer20", "timer30"}

command_map ==
    [c \in CommandNames |->
        CASE c = "night"   -> [CODE |-> "22F8", PAYLEN |-> <<0, 0, 3>>, PAYLOAD |-> <<6, 3, 0, 2, 0, 3>>]
          [] c = "auto"    -> [CODE |-> "22F1", PAYLEN |-> <<0, 0, 3>>, PAYLOAD |-> <<6, 3, 0, 3, 0, 4>>]
          [] c = "low"     -> [CODE |-> "22F1", PAYLEN |-> <<0, 0, 3>>, PAYLOAD |-> <<6, 3, 0, 2, 0, 4>>]
          [] c = "high"    -> [CODE |-> "22F1", PAYLEN |-> <<0, 0, 3>>, PAYLOAD |-> <<6, 3, 0, 4, 0, 4>>]
          [] c = "timer10" -> [CODE |-> "22F3", PAYLEN |-> <<0, 0, 3>>, PAYLOAD |-> <<6, 3, 0, 0, 0, 10>>]
          [] c = "timer20" -> [CODE |-> "22F3", PAYLEN |-> <<0, 0, 3>>, PAYLOAD |-> <<6, 3, 0, 0, 1, 4>>]
          [] c = "timer30" -> [CODE |-> "22F3", PAYLEN |-> <<0, 0, 3>>, PAYLOAD |-> <<6, 3, 0, 0, 1, 14>>]]

(* "command in command_map" *)
InCommandMap(c) == c \in DOMAIN command_map

CommandFrame(seq, remote, c) ==
    OutFrame(" I", Fmt03(seq), NoAddr, NoAddr, remote,
             command_map[c].CODE, command_map[c].PAYLEN, command_map[c].PAYLOAD)

(* the data request of request_data() *)
RequestFrame(remote, unit) ==
    OutFrame("RQ", Dashes3, remote, unit, NoAddr, "31DA", <<0, 0, 1>>, <<0, 0>>)

-----------------------------------------------------------------------------
(* The status decoder _parse_status *)

(* int(text, 16): raises ValueError on the empty text *)
IntHex(s) == IntOf(s, 16)

Bit(n, k) == (n \div (2 ^ k)) % 2 = 1

(* an optional reading: <<v>>, or <<>> for Python's None *)
Some(v) == <<v>>

Null == <<>>

(* a reading raw/den, kept exact *)
Rat(n, d) == [num |-> n, den |-> d]

(* a percentage that is held at 100.0 above the range *)
Percent_clamped(raw) == IF raw <= 200 THEN Some(Rat(raw, 2)) ELSE Some(Rat(200, 2))

(* raw / 2 if 0.0 <= raw / 2 <= 100.0 else None *)
Percent(raw) == IF 0 <= raw /\ raw <= 200 THEN Some(Rat(raw, 2)) ELSE Null

(* raw if 0 <= raw <= 100 else None *)
Humidity(raw) == IF 0 <= raw /\ raw <= 100 THEN Some(Rat(raw, 1)) ELSE Null

(* raw if 0 <= raw <= 0x3FFF else None *)
Co2Level(raw) == IF 0 <= raw /\ raw <= 16383 THEN Some(Rat(raw, 1)) ELSE Null

(* raw -= 0x10000 if raw & 0x8000 else 0 *)
Signed16(raw) == IF Bit(raw, 15) THEN raw - 65536 ELSE raw

(* a temperature that is held at the ends of the range *)
Temperature_clamped(raw) ==
    LET s == Signed16(raw)
    IN  IF s < -27315 THEN Some(Rat(-27315, 100))
        ELSE IF s > 32766 THEN Some(Rat(32766, 100))
        ELSE Some(Rat(s, 100))

(* signed / 100.0 if -273.15 <= signed / 100.0 <= 327.66 else None *)
Temperature(raw) ==
    LET s == Signed16(raw)
    IN  IF -27315 <= s /\ s <= 32766 THEN Some(Rat(s, 100)) ELSE Null

(* raw / 100.0 if 0 <= raw <= 0x7FFF else None *)
Flow(raw) == IF 0 <= raw /\ raw <= 32767 THEN Some(Rat(raw, 100)) ELSE Null

capability_names ==
    <<"Off", "Away", "Timer", "Boost", "Auto", "Speed 4", "Speed 5", "Speed 6",
      "Speed 7", "Speed 8", "Speed 9", "Speed 10", "Night", "Reserved",
      "Post Heater", "Pre Heater">>

RECURSIVE SetCapabilities_lsb(_, _)
(* the names read from the least significant bit up *)
SetCapabilities_lsb(raw, i) ==
    IF i >= 16 THEN <<>>
    ELSE (IF Bit(raw, i) THEN <<capability_names[i + 1]>> ELSE <<>>)
         \o SetCapabilities_lsb(raw, i + 1)

RECURSIVE SetCapabilities(_, _)
(* [capability_names[i] for i in range(16) if raw & (1 << (15 - i))], from i on *)
SetCapabilities(raw, i) ==
    IF i >= 16 THEN <<>>
    ELSE (IF Bit(raw, 15 - i) THEN <<capability_names[i + 1]>> ELSE <<>>)
         \o SetCapabilities(raw, i + 1)

SpeedName(n) ==
    CASE n = 1 -> "Speed 1" [] n = 2 -> "Speed 2" [] n = 3 -> "Speed 3"
      [] n = 4 -> "Speed 4" [] n = 5 -> "Speed 5" [] n = 6 -> "Speed 6"
      [] n = 7 -> "Speed 7" [] n = 8 -> "Speed 8" [] n = 9 -> "Speed 9"
      [] n = 10 -> "Speed 10"

SpeedOverrideName(n) ==
    CASE n = 1 -> "Speed 1 Temporary Override" [] n = 2 -> "Speed 2 Temporary Override"
      [] n = 3 -> "Speed 3 Temporary Override" [] n = 4 -> "Speed 4 Temporary Override"
      [] n = 5 -> "Speed 5 Temporary Override" [] n = 6 -> "Speed 6 Temporary Override"
      [] n = 7 -> "Speed 7 Temporary Override" [] n = 8 -> "Speed 8 Temporary Override"
      [] n = 9 -> "Speed 9 Temporary Override" [] n = 10 -> "Speed 10 Temporary Override"

(* int(flags_raw & 0b00011111) *)
ActiveSpeedModeRaw(flags_raw) == flags_raw % 32

(* active_speed_mode_mapping.get(code, "Unknown") *)
active_speed_mode_mapping(code) ==
    CASE code = 0 -> "OFF"
      [] code >= 1 /\ code <= 10 -> SpeedName(code)
      [] code >= 11 /\ code <= 20 -> SpeedOverrideName(code - 10)
      [] code = 21 -> "Away"
      [] code = 22 -> "Abs Minimum Speed"
      [] code = 23 -> "Abs Maximum Speed"
      [] code = 24 -> "Auto"
      [] code = 25 -> "Night"
      [] OTHER -> "Unknown"

(* the slices pos[a:b] that _parse_status hands to int(.., 16) *)
StatusSlices ==
    {<<2, 4>>, <<4, 6>>, <<6, 10>>, <<10, 12>>, <<12, 14>>, <<14, 18>>,
     <<18, 22>>, <<22, 26>>, <<26, 30>>, <<30, 34>>, <<34, 36>>, <<36, 38>>,
     <<38, 40>>, <<40, 42>>, <<42, 46>>, <<46, 48>>, <<48, 50>>, <<50, 54>>,
     <<54, 58>>}

(* _parse_status raises ValueError: some int("", 16) *)
StatusRaises(pos) == \E sl \in StatusSlices : Slice(pos, sl[1], sl[2]) = <<>>

(* the dictionary _parse_status stores in self.data *)
StatusReport(pos) ==
    LET raw(a, b) == IntHex(Slice(pos, a, b))
        quality_base == raw(4, 6)
        flags_raw == raw(36, 38)
    IN  [air_quality |-> Percent(raw(2, 4)),
         quality_base |-> [th |-> Bit(quality_base, 7),
                           co |-> Bit(quality_base, 6),
                           voc |-> Bit(quality_base, 5),
                           outdoor_improved |-> ~Bit(quality_base, 4)],
         co2_level |-> Co2Level(raw(6, 10)),
         outdoor_humidity |-> Humidity(raw(10, 12)),
         indoor_humidity |-> Humidity(raw(12, 14)),
         exhaust_temperature |-> Temperature(raw(14, 18)),
         supply_temperature |-> Temperature(raw(18, 22)),
         indoor_temperature |-> Temperature(raw(22, 26)),
         outdoor_temperature |-> Temperature(raw(26, 30)),
         capability_flags |-> SetCapabilities(raw(30, 34), 0),
         bypass_position |-> Percent(raw(34, 36)),
         flags |-> [fault_active |-> Bit(flags_raw, 7),
                    filter_dirty |-> Bit(flags_raw, 6),
                    defrost_active |-> Bit(flags_raw, 5),
                    active_speed_mode |->
                        active_speed_mode_mapping(ActiveSpeedModeRaw(flags_raw))],
         exhaust_fan_speed |-> Percent(raw(38, 40)),
         inlet_fan_speed |-> Percent(raw(40, 42)),
         remaining_time |-> raw(42, 46),
         pos_theater |-> Percent(raw(46, 48)),
         pre_heater |-> Percent(raw(48, 50)),
         inlet_flow |-> Flow(raw(50, 54)),
         exhaust_flow |-> Flow(raw(54, 58))]

(* self.data = {} *)
EmptyData == <<>>

(* a store that keeps the cached air quality where the payload has none *)
StoreStatus_merge(old, pos) ==
    LET new == StatusReport(pos)
    IN  IF old = EmptyData \/ new.air_quality # Null THEN <<new>>
        ELSE <<[new EXCEPT !.air_quality = old[1].air_quality]>>

(* self.data = {...}: the dictionary built from the payload replaces the *)
(* cached one                                                            *)
StoreStatus(old, pos) == <<StatusReport(pos)>>

-----------------------------------------------------------------------------
(* Incoming lines.  A line is the text of a frame of the grammar of          *)
(* regex_pattern, followed (tail) or not by further characters that are not *)
(* hex digits, or (kind "text") a text in which the pattern finds no frame. *)
(* RSSI, SEQNR and ADDR3 are matched by the pattern and never read.         *)

InLine(kind, verb, a1, a2, code, len, payload, tail) ==
    [kind |-> kind, VERB |-> verb, ADDR1 |-> a1, ADDR2 |-> a2, CODE |-> code,
     PAYLEN |-> len, PAYLOAD |-> payload, tail |-> tail]

(* "garbage" *)
Garbage == InLine("text", "", NoAddr, NoAddr, "", 0, <<>>, FALSE)

(* no line read yet *)
NoLine == InLine("none", "", NoAddr, NoAddr, "", 0, <<>>, FALSE)

(* 00F0007FFFEFEF0884079E085A07714000125850FF0000EFEF41E641E6 *)
Status58a ==
    <<0,0,15,0,0,0,7,15,15,15,14,15,14,15,0,8,8,4,0,7,9,14,0,8,5,10,0,7,7,1,
      4,0,0,0,1,2,5,8,5,0,15,15,0,0,0,0,14,15,14,15,4,1,14,6,4,1,14,6>>

(* 00C84002A5EFEF07F5087F082C082E4808C81800FF0000EFEF13F613F6 *)
Status58b ==
    <<0,0,12,8,4,0,0,2,10,5,14,15,14,15,0,7,15,5,0,8,7,15,0,8,2,12,0,8,2,14,
      4,8,0,8,12,8,1,8,0,0,15,15,0,0,0,0,14,15,14,15,1,3,15,6,1,3,15,6>>

(* 070 RQ --- 18:012345 29:012345 --:------ 10E0 001 63, and the frames that *)
(* differ from it in verb, ADDR2, code or payload                            *)
ReplyLines ==
    {InLine("frame", v, Unit2, a2, c, 1, p, FALSE) :
        v \in {"RQ", " I"}, a2 \in {Remote1, NoAddr}, c \in {"10E0", "31DA"},
        p \in {<<6, 3>>, <<0, 0>>}}

(* the reply from another unit, with a wrong PAYLEN, with a payload of three *)
(* characters, and followed by further text                                  *)
ReplyVariants ==
    {InLine("frame", "RQ", Unit1, Remote1, "10E0", 1, <<6, 3>>, FALSE),
     InLine("frame", "RQ", Unit2, Remote1, "10E0", 2, <<6, 3>>, FALSE),
     InLine("frame", "RQ", Unit2, Remote1, "10E0", 1, <<6, 3, 0>>, FALSE),
     InLine("frame", "RQ", Unit2, Remote1, "10E0", 1, <<6, 3>>, TRUE)}

(* 069  I --- 18:126620 --:------ 18:126620 31DA 029 <58 hex>, from either  *)
(* unit, and its variants: a wrong PAYLEN, a short payload, further text,   *)
(* a payload of 59 characters declared as 29 bytes and one of 60 characters *)
(* declared as 30 bytes                                                     *)
StatusLines ==
    {InLine("frame", " I", a1, NoAddr, "31DA", 29, p, FALSE) :
        a1 \in {Unit1, Unit2}, p \in {Status58a, Status58b}}
    \cup
    {InLine("frame", " I", Unit1, NoAddr, "31DA", 28, Status58a, FALSE),
     InLine("frame", " I", Unit1, NoAddr, "31DA", 1, <<0, 0>>, FALSE),
     InLine("frame", " I", Unit1, NoAddr, "31DA", 29, Status58b, TRUE),
     InLine("frame", " I", Unit1, NoAddr, "31DA", 29, Status58b \o <<0>>, FALSE),
     InLine("frame", " I", Unit1, NoAddr, "31DA", 30, Status58b \o <<0, 0>>, FALSE)}

Lines == ReplyLines \cup ReplyVariants \cup StatusLines \cup {Garbage}

(* re.match(regex_pattern, data): the pattern is matched at the start of the *)
(* line and need not reach its end                                           *)
ReMatch(l) == l.kind = "frame"

(* int(len(PAYLOAD) / 2) != int(PAYLEN) is false *)
LengthOk(m) == Len(m.PAYLOAD) \div 2 = m.PAYLEN

-----------------------------------------------------------------------------
(* The dispatch of one matched frame in _loop_task *)

Call(cb, remote, unit, report) ==
    [cb |-> cb, remote |-> remote, unit |-> unit, data |-> report]

(* the reply condition reading the wrong address group *)
IsPairingReply_addr1(m, remote) ==
    /\ m.VERB = "RQ"
    /\ m.CODE = "10E0"
    /\ m.ADDR1 = remote
    /\ m.PAYLOAD = <<6, 3>>

(* the condition of the handshake reply, on the matched groups *)
IsPairingReply(m, remote) ==
    /\ m.VERB = "RQ"
    /\ m.CODE = "10E0"
    /\ m.ADDR2 = remote
    /\ m.PAYLOAD = <<6, 3>>

(* the deadline compared with >= *)
TimeoutElapsed_ge(t, deadline) == t >= deadline

(* time.time() > self.pairing_timeout *)
TimeoutElapsed(t, deadline) == t > deadline

(* a reply branch that leaves the attempt pending *)
AcceptReply_stays_pairing(s, m, remote, cb) ==
    [unit |-> m.ADDR1,
     pairing |-> s.pairing,
     log |-> Append(s.log, "Pairing success"),
     calls |-> IF cb THEN Append(s.calls, Call("pair_callback", remote, m.ADDR1, EmptyData))
               ELSE s.calls]

(* the body of "if <handshake reply>:" on s = [unit, pairing, calls, log] *)
AcceptReply(s, m, remote, cb) ==
    [unit |-> m.ADDR1,
     pairing |-> FALSE,
     log |-> Append(s.log, "Pairing success"),
     calls |-> IF cb THEN Append(s.calls, Call("pair_callback", remote, m.ADDR1, EmptyData))
               ELSE s.calls]

(* the body of "if time.time() > self.pairing_timeout:" *)
ExpirePairing(s) ==
    [s EXCEPT !.unit = None, !.pairing = FALSE, !.log = Append(s.log, "Pairing timeout")]

(* the pairing block without its guard "if self.is_pairing:" *)
HandlePairing_unguarded(s, m, remote, cb, t, deadline) ==
    LET s1 == IF IsPairingReply(m, remote) THEN AcceptReply(s, m, remote, cb) ELSE s
    IN  IF s.pairing /\ TimeoutElapsed(t, deadline) THEN ExpirePairing(s1) ELSE s1

(* the block "if self.is_pairing:"; both inner ifs are run in turn *)
HandlePairing(s, m, remote, cb, t, deadline) ==
    IF s.pairing
    THEN LET s1 == IF IsPairingReply(m, remote) THEN AcceptReply(s, m, remote, cb) ELSE s
         IN  IF TimeoutElapsed(t, deadline) THEN ExpirePairing(s1) ELSE s1
    ELSE s

(* the condition of the block that handles status messages *)
IsStatusMessage(unit, m) ==
    /\ unit # None
    /\ m.ADDR1 = unit
    /\ m.CODE = "31DA"

-----------------------------------------------------------------------------
(* Initial state: IthoRFTRemote.__init__ *)

Op(name, arg) == [name |-> name, arg |-> arg]

NoCall == Op("", "")

Init ==
    /\ remote_address = Remote1
    /\ unit_address \in {None, Unit1}
    /\ is_pairing = FALSE
    /\ pairing_timeout = 0
    /\ sequence_number = 0
    /\ pair_callback = FALSE
    /\ data_callback = FALSE
    /\ data = EmptyData
    /\ task = FALSE
    /\ pc = "none"
    /\ cancel = FALSE
    /\ now = 0
    /\ op = NoCall
    /\ line = NoLine
    /\ tx = <<>>
    /\ calls = <<>>
    /\ log = <<>>

-----------------------------------------------------------------------------
(* The caller's operations.  They are synchronous functions run on the    *)
(* event loop, so none runs while the worker is between two awaits.       *)

(* callers that could run between two lines of the inner loop *)
CallerRuns_anytime == TRUE

CallerRuns == pc # "drain"

(* a step that calls no encoder, reads no line, writes nothing and invokes *)
(* no callback                                                           *)
Silent == op' = NoCall /\ line' = NoLine /\ tx' = <<>> /\ calls' = <<>> /\ log' = <<>>

register_pair_callback ==
    /\ CallerRuns
    /\ pair_callback' = TRUE
    /\ Silent
    /\ UNCHANGED <<core, data_callback, task, pc, cancel, now>>

register_data_callback ==
    /\ CallerRuns
    /\ data_callback' = TRUE
    /\ Silent
    /\ UNCHANGED <<core, pair_callback, task, pc, cancel, now>>

start_task ==
    /\ CallerRuns
    /\ IF ~task
       THEN task' = TRUE /\ pc' = "created" /\ cancel' = FALSE
       ELSE UNCHANGED <<task, pc, cancel>>
    /\ Silent
    /\ UNCHANGED <<core, pair_callback, data_callback, now>>

(* stop_task() that forgets the task at once instead of leaving that to *)
(* the worker's cleanup                                                 *)
stop_task_forgets ==
    /\ CallerRuns
    /\ cancel' = IF task /\ pc # "none" THEN TRUE ELSE cancel
    /\ task' = FALSE
    /\ Silent
    /\ UNCHANGED <<core, pair_callback, data_callback, pc, now>>

stop_task ==
    /\ CallerRuns
    /\ cancel' = IF task /\ pc # "none" THEN TRUE ELSE cancel
    /\ Silent
    /\ UNCHANGED <<core, pair_callback, data_callback, task, pc, now>>

(* pair() that leaves the deadline as it was *)
pair_stale_deadline ==
    /\ CallerRuns
    /\ tx' = <<PairFrame(sequence_number, remote_address)>>
    /\ sequence_number' = sequence_number + 1
    /\ is_pairing' = TRUE
    /\ op' = Op("pair", "")
    /\ calls' = <<>> /\ line' = NoLine /\ log' = <<>>
    /\ UNCHANGED <<remote_address, unit_address, pairing_timeout, data, pair_callback,
                   data_callback, task, pc, cancel, now>>

pair ==
    /\ CallerRuns
    /\ tx' = <<PairFrame(sequence_number, remote_address)>>
    /\ sequence_number' = sequence_number + 1
    /\ pairing_timeout' = now + TIMEOUT_PAIRING
    /\ is_pairing' = TRUE
    /\ op' = Op("pair", "")
    /\ calls' = <<>> /\ line' = NoLine /\ log' = <<>>
    /\ UNCHANGED <<remote_address, unit_address, data, pair_callback,
                   data_callback, task, pc, cancel, now>>

(* command() counting a frame for every call, rejected or not *)
command_counts_all(c) ==
    /\ CallerRuns
    /\ tx' = IF InCommandMap(c)
             THEN <<CommandFrame(sequence_number, remote_address, c)>> ELSE <<>>
    /\ sequence_number' = sequence_number + 1
    /\ op' = Op("command", c)
    /\ calls' = <<>> /\ line' = NoLine /\ log' = <<>>
    /\ UNCHANGED <<remote_address, unit_address, is_pairing, pairing_timeout,
                   data, pair_callback, data_callback, task, pc, cancel, now>>

command(c) ==
    /\ CallerRuns
    /\ IF InCommandMap(c)
       THEN /\ tx' = <<CommandFrame(sequence_number, remote_address, c)>>
            /\ sequence_number' = sequence_number + 1
       ELSE /\ tx' = <<>>
            /\ UNCHANGED sequence_number
    /\ op' = Op("command", c)
    /\ calls' = <<>> /\ line' = NoLine /\ log' = <<>>
    /\ UNCHANGED <<remote_address, unit_address, is_pairing, pairing_timeout,
                   data, pair_callback, data_callback, task, pc, cancel, now>>

(* request_data() taking a sequence number as command() does *)
request_data_counts ==
    /\ CallerRuns
    /\ tx' = <<RequestFrame(remote_address, unit_address)>>
    /\ sequence_number' = sequence_number + 1
    /\ op' = Op("request_data", "")
    /\ calls' = <<>> /\ line' = NoLine /\ log' = <<>>
    /\ UNCHANGED <<remote_address, unit_address, is_pairing, pairing_timeout,
                   data, pair_callback, data_callback, task, pc, cancel, now>>

request_data ==
    /\ CallerRuns
    /\ tx' = <<RequestFrame(remote_address, unit_address)>>
    /\ op' = Op("request_data", "")
    /\ calls' = <<>> /\ line' = NoLine /\ log' = <<>>
    /\ UNCHANGED <<core, pair_callback, data_callback, task, pc, cancel, now>>

(* _send_data() raises: IthoRemoteGatewayError when serial_connection is *)
(* unset, or the exception of the write of the serial port.  The calls   *)
(* below end at their _send_data(data) line.                             *)
GatewayError == <<"IthoRemoteGatewayError">>

Raises(name, arg) ==
    /\ CallerRuns
    /\ op' = Op(name, arg)
    /\ log' = GatewayError
    /\ tx' = <<>> /\ calls' = <<>> /\ line' = NoLine
    /\ UNCHANGED <<pair_callback, data_callback, task, pc, cancel, now>>

(* pair() that counts and starts the attempt before it sends *)
pair_raises_counted ==
    /\ Raises("pair", "")
    /\ sequence_number' = sequence_number + 1
    /\ pairing_timeout' = now + TIMEOUT_PAIRING
    /\ is_pairing' = TRUE
    /\ UNCHANGED <<remote_address, unit_address, data>>

(* pair() whose _send_data raises *)
pair_raises == Raises("pair", "") /\ UNCHANGED core

(* command(c) whose _send_data raises: c is in command_map *)
command_raises(c) == InCommandMap(c) /\ Raises("command", c) /\ UNCHANGED core

(* request_data() whose _send_data raises *)
request_data_raises == Raises("request_data", "") /\ UNCHANGED core

(* the names a caller may pass to command() *)
CommandInputs == CommandNames \cup {"boost"}

(* the names the full model passes: one of the table, one outside it *)
FewCommands == {"auto", "boost"}

-----------------------------------------------------------------------------
(* The worker _loop_task *)

(* the new task runs up to its first "await asyncio.sleep(1)" *)
first_step ==
    /\ pc = "created" /\ ~cancel
    /\ pc' = "sleep"
    /\ Silent
    /\ UNCHANGED <<core, pair_callback, data_callback, task, cancel, now>>

(* a task cancelled before its first step never enters the try block *)
cancelled_unstarted ==
    /\ pc = "created" /\ cancel
    /\ pc' = "none" /\ cancel' = FALSE
    /\ Silent
    /\ UNCHANGED <<core, pair_callback, data_callback, task, now>>

(* a worker that repeats the broadcast at every cycle of a pending attempt *)
wake_rebroadcast ==
    /\ pc = "sleep" /\ ~cancel
    /\ pc' = "drain"
    /\ tx' = IF is_pairing THEN <<PairFrame(sequence_number, remote_address)>> ELSE <<>>
    /\ op' = NoCall /\ line' = NoLine /\ calls' = <<>> /\ log' = <<>>
    /\ UNCHANGED <<core, pair_callback, data_callback, task, cancel, now>>

(* asyncio.sleep(1) returns *)
wake ==
    /\ pc = "sleep" /\ ~cancel
    /\ pc' = "drain"
    /\ Silent
    /\ UNCHANGED <<core, pair_callback, data_callback, task, cancel, now>>

(* asyncio.sleep(1) raises CancelledError: except, then finally *)
cancelled ==
    /\ pc = "sleep" /\ cancel
    /\ pc' = "none" /\ cancel' = FALSE /\ task' = FALSE
    /\ Silent
    /\ UNCHANGED <<core, pair_callback, data_callback, now>>

(* _receive_data() returns None: break, back to the sleep *)
receive_none ==
    /\ pc = "drain"
    /\ pc' = "sleep"
    /\ Silent
    /\ UNCHANGED <<core, pair_callback, data_callback, task, cancel, now>>

(* _receive_data() returns the line l: one pass of the inner loop *)
receive_line(l) ==
    /\ pc = "drain"
    /\ line' = l
    /\ op' = NoCall
    /\ tx' = <<>>
    /\ IF ~ReMatch(l) \/ ~LengthOk(l)
       THEN /\ calls' = <<>> /\ log' = <<>>
            /\ UNCHANGED <<unit_address, is_pairing, data, task, pc>>
       ELSE LET s0 == [unit |-> unit_address, pairing |-> is_pairing,
                       calls |-> <<>>, log |-> <<>>]
                s1 == HandlePairing(s0, l, remote_address, pair_callback,
                                    now, pairing_timeout)
            IN  /\ unit_address' = s1.unit
                /\ is_pairing' = s1.pairing
                /\ log' = s1.log
                /\ IF ~IsStatusMessage(s1.unit, l)
                   THEN /\ calls' = s1.calls
                        /\ UNCHANGED <<data, task, pc>>
                   ELSE IF StatusRaises(l.PAYLOAD)
                   THEN \* ValueError leaves the coroutine through "finally"
                        /\ calls' = s1.calls
                        /\ task' = FALSE /\ pc' = "none"
                        /\ UNCHANGED data
                   ELSE /\ data' = StoreStatus(data, l.PAYLOAD)
                        /\ calls' = IF data_callback
                                    THEN Append(s1.calls,
                                                Call("data_callback", None, None, data'))
                                    ELSE s1.calls
                        /\ UNCHANGED <<task, pc>>
    /\ UNCHANGED <<remote_address, pairing_timeout, sequence_number,
                   pair_callback, data_callback, cancel, now>>

(* time passes *)
Tick ==
    /\ now < MaxTime
    /\ now' = now + 1
    /\ Silent
    /\ UNCHANGED <<core, pair_callback, data_callback, task, pc, cancel>>

-----------------------------------------------------------------------------
(* Specifications *)

Next ==
    \/ register_pair_callback
    \/ register_data_callback
    \/ start_task
    \/ stop_task
    \/ (sequence_number < MaxSeq /\ pair)
    \/ (\E c \in FewCommands : sequence_number < MaxSeq /\ command(c))
    \/ request_data
    \/ first_step
    \/ cancelled_unstarted
    \/ wake
    \/ cancelled
    \/ receive_none
    \/ (\E l \in Lines : receive_line(l))
    \/ Tick

Spec == Init /\ [][Next]_vars

(* the caller's encoders alone, up to the wrap of the sequence counter *)
NextSeq ==
    \/ (sequence_number < SeqLimit /\ pair)
    \/ (\E c \in CommandInputs : sequence_number < SeqLimit /\ command(c))
    \/ request_data

SpecSeq == Init /\ [][NextSeq]_vars

(* the event loop runs a ready coroutine, the clock advances *)
SpecFair ==
    /\ Init /\ [][Next]_vars
    /\ WF_vars(first_step)
    /\ WF_vars(wake)
    /\ WF_vars(receive_none \/ \E l \in Lines : receive_line(l))
    /\ WF_vars(Tick)

(* Remote addresses of the textual form "CC:IIIIII" handed to the         *)
(* constructor: the classes and ids at the ends of the decimal ranges and *)
(* around the 6 and 18 bits of the integer form                           *)
AddrClasses == {0, 1, 29, 30, 63, 64, 99}

AddrIds == {0, 1, 12345, 262143, 262144, 999999}

AddrOf(c, i) == Addr(ZeroPad(DecDigits(c), 2), ZeroPad(DecDigits(i), 6))

AddrInputs == {AddrOf(c, i) : c \in AddrClasses, i \in AddrIds}

(* the remote constructed with any of these addresses *)
InitAddr ==
    /\ remote_address \in AddrInputs
    /\ unit_address \in {None, Unit1}
    /\ is_pairing = FALSE
    /\ pairing_timeout = 0
    /\ sequence_number = 0
    /\ pair_callback = FALSE
    /\ data_callback = FALSE
    /\ data = EmptyData
    /\ task = FALSE
    /\ pc = "none"
    /\ cancel = FALSE
    /\ now = 0
    /\ op = NoCall
    /\ line = NoLine
    /\ tx = <<>>
    /\ calls = <<>>
    /\ log = <<>>

NextAddr ==
    \/ (sequence_number < MaxSeq /\ pair)
    \/ request_data

SpecAddr == InitAddr /\ [][NextAddr]_vars

(* the caller's encoders on a transport whose write may fail *)
NextGateway ==
    \/ (sequence_number < MaxSeq /\ pair)
    \/ pair_raises
    \/ (\E c \in FewCommands : sequence_number < MaxSeq /\ command(c))
    \/ (\E c \in FewCommands : command_raises(c))
    \/ request_data
    \/ request_data_raises
    \/ Tick

SpecGateway == Init /\ [][NextGateway]_vars

(* Status payloads for the decoder: the sample payload with one field set *)
(* to a raw value at, next to or far from the ends of its range           *)
WithField(base, a, digits) ==
    [i \in 1..Len(base) |->
        IF i > a /\ i <= a + Len(digits) THEN digits[i - a] ELSE base[i]]

Hex2(n) == ZeroPad(HexDigits(n), 2)

Hex4(n) == ZeroPad(HexDigits(n), 4)

(* pos[14:18], pos[18:22], pos[22:26], pos[26:30] *)
TemperatureFields ==
    {<<"exhaust_temperature", 14>>, <<"supply_temperature", 18>>,
     <<"indoor_temperature", 22>>, <<"outdoor_temperature", 26>>}

(* pos[2:4], pos[34:36], pos[38:40], pos[40:42], pos[46:48], pos[48:50] *)
PercentFields ==
    {<<"air_quality", 2>>, <<"bypass_position", 34>>, <<"exhaust_fan_speed", 38>>,
     <<"inlet_fan_speed", 40>>, <<"pos_theater", 46>>, <<"pre_heater", 48>>}

(* pos[10:12], pos[12:14] *)
HumidityFields == {<<"outdoor_humidity", 10>>, <<"indoor_humidity", 12>>}

(* pos[50:54], pos[54:58] *)
FlowFields == {<<"inlet_flow", 50>>, <<"exhaust_flow", 54>>}

(* pos[6:10], pos[42:46] and the flows *)
WordFields == FlowFields \cup {<<"co2_level", 6>>, <<"remaining_time", 42>>}

TemperatureRaws ==
    {0, 1, 2180, 32766, 32767, 32768, 32769, 38220, 38221, 38222, 65535}

ByteRaws == {0, 1, 100, 101, 200, 201, 255}

WordRaws == {0, 1, 16383, 16384, 32767, 32768, 65535}

CapabilityRaws == {0, 65535} \cup {2 ^ k : k \in 0..15}

StatusInputs ==
    {WithField(Status58a, f[2], Hex4(r)) : f \in TemperatureFields, r \in TemperatureRaws}
    \cup {WithField(Status58a, f[2], Hex2(r)) :
             f \in PercentFields \cup HumidityFields, r \in ByteRaws}
    \cup {WithField(Status58a, f[2], Hex4(r)) : f \in WordFields, r \in WordRaws}
    \cup {WithField(Status58a, 30, Hex4(r)) : r \in CapabilityRaws}

(* 069  I --- 18:126620 --:------ 18:126620 31DA 029 <payload> *)
DecodeLines ==
    {InLine("frame", " I", Unit1, NoAddr, "31DA", 29, p, FALSE) : p \in StatusInputs}

(* the remote constructed with its unit address *)
InitStatus == Init /\ unit_address = Unit1

(* the worker reading status frames of the unit *)
NextStatus ==
    \/ register_data_callback
    \/ start_task
    \/ first_step
    \/ wake
    \/ receive_none
    \/ (\E l \in DecodeLines : receive_line(l))

SpecStatus == InitStatus /\ [][NextStatus]_vars

(* 070 RQ --- --:------ 29:012345 --:------ 10E0 001 63: the reply whose   *)
(* ADDR1 is the form "--:------" the pattern accepts, the reply of a unit, *)
(* a status frame with that ADDR1, and a text                             *)
SentinelLines ==
    {InLine("frame", "RQ", NoAddr, Remote1, "10E0", 1, <<6, 3>>, FALSE),
     InLine("frame", "RQ", Unit2, Remote1, "10E0", 1, <<6, 3>>, FALSE),
     InLine("frame", " I", NoAddr, NoAddr, "31DA", 29, Status58a, FALSE),
     Garbage}

(* the worker reading these lines while the caller pairs *)
NextSentinel ==
    \/ register_data_callback
    \/ start_task
    \/ (sequence_number < MaxSeq /\ pair)
    \/ first_step
    \/ wake
    \/ receive_none
    \/ (\E l \in SentinelLines : receive_line(l))
    \/ Tick

SpecSentinel == Init /\ [][NextSentinel]_vars

-----------------------------------------------------------------------------
(* The stand-alone program of main.py, class IthoRemoteRFT: its status     *)
(* parser and the iteration of its loop.  It has no callbacks, no length   *)
(* check and no exception handler; its loop task is created when the       *)
(* program starts.                                                         *)

(* active_speed_mode_mapping.get(code, "Unknown") of main.py *)
main_active_speed_mode_mapping(code) ==
    CASE code = 0 -> "OFF"
      [] code >= 1 /\ code <= 10 -> SpeedName(code)
      [] code >= 11 /\ code <= 20 -> SpeedOverrideName(code - 10)
      [] code = 21 -> "Away"
      [] code = 22 -> "Abs Minimum Speed"
      [] code = 23 -> "Abs Maximum Speed"
      [] code = 24 -> "Auto Mode"
      [] code = 25 -> "Auto Night"
      [] OTHER -> "Unknown"

(* raw if 0 <= raw <= 0x7FFF else None *)
main_Flow(raw) == IF 0 <= raw /\ raw <= 32767 THEN Some(Rat(raw, 1)) ELSE Null

(* the dictionary _parse_status of main.py stores in self.data: that of   *)
(* remote.py but for the keys of quality_base, the text " Capable" after  *)
(* the capabilities, the speed mode labels and the unscaled flows         *)
main_StatusReport(pos) ==
    LET raw(a, b) == IntHex(Slice(pos, a, b))
        quality_base == raw(4, 6)
        flags_raw == raw(36, 38)
        report == StatusReport(pos)
    IN  [report EXCEPT
           !.quality_base = ("Based on TH" :> Bit(quality_base, 7))
                            @@ ("Based on CO" :> Bit(quality_base, 6))
                            @@ ("Based on VOC" :> Bit(quality_base, 5))
                            @@ ("Outdoor Improved" :> ~Bit(quality_base, 4)),
           !.capability_flags = SetCapabilities(raw(30, 34), 0) \o <<" Capable">>,
           !.flags.active_speed_mode =
               main_active_speed_mode_mapping(ActiveSpeedModeRaw(flags_raw)),
           !.inlet_flow = main_Flow(raw(50, 54)),
           !.exhaust_flow = main_Flow(raw(54, 58))]

(* _receive_data() returns None: the iteration does nothing *)
main_loop_idle ==
    /\ task /\ pc = "sleep"
    /\ Silent
    /\ UNCHANGED <<core, pair_callback, data_callback, task, pc, cancel, now>>

(* one iteration of the loop of main.py with the line l *)
main_loop_task(l) ==
    /\ task /\ pc = "sleep"
    /\ line' = l
    /\ op' = NoCall
    /\ tx' = <<>>
    /\ calls' = <<>>
    /\ IF ~ReMatch(l)
       THEN /\ log' = <<>>
            /\ UNCHANGED <<unit_address, is_pairing, data, task, pc>>
       ELSE LET s0 == [unit |-> unit_address, pairing |-> is_pairing,
                       calls |-> <<>>, log |-> <<>>]
                s1 == HandlePairing(s0, l, remote_address, FALSE, now, pairing_timeout)
            IN  /\ unit_address' = s1.unit
                /\ is_pairing' = s1.pairing
                /\ log' = s1.log
                /\ IF ~IsStatusMessage(s1.unit, l)
                   THEN UNCHANGED <<data, task, pc>>
                   ELSE IF StatusRaises(l.PAYLOAD)
                   THEN \* ValueError ends the loop task
                        /\ task' = FALSE /\ pc' = "none"
                        /\ UNCHANGED data
                   ELSE /\ data' = <<main_StatusReport(l.PAYLOAD)>>
                        /\ UNCHANGED <<task, pc>>
    /\ UNCHANGED <<remote_address, pairing_timeout, sequence_number,
                   pair_callback, data_callback, cancel, now>>

(* pair() of main.py: the broadcast is sent three times, and only when a *)
(* unit address is set; the deadline is time.time() + 60, the pairing    *)
(* timeout                                                               *)
main_pair ==
    /\ IF unit_address # None
       THEN /\ tx' = <<PairFrame(sequence_number, remote_address),
                       PairFrame(sequence_number, remote_address),
                       PairFrame(sequence_number, remote_address)>>
            /\ sequence_number' = sequence_number + 1
            /\ pairing_timeout' = now + TIMEOUT_PAIRING
            /\ is_pairing' = TRUE
       ELSE /\ tx' = <<>>
            /\ UNCHANGED <<sequence_number, pairing_timeout, is_pairing>>
    /\ op' = Op("pair", "")
    /\ calls' = <<>> /\ line' = NoLine /\ log' = <<>>
    /\ UNCHANGED <<remote_address, unit_address, data, pair_callback,
                   data_callback, task, pc, cancel, now>>

(* command_map of main.py has no "night" *)
main_InCommandMap(c) == InCommandMap(c) /\ c # "night"

(* command() of main.py: a known command is sent three times *)
main_command(c) ==
    /\ IF main_InCommandMap(c)
       THEN /\ tx' = <<CommandFrame(sequence_number, remote_address, c),
                       CommandFrame(sequence_number, remote_address, c),
                       CommandFrame(sequence_number, remote_address, c)>>
            /\ sequence_number' = sequence_number + 1
       ELSE /\ tx' = <<>>
            /\ UNCHANGED sequence_number
    /\ op' = Op("command", c)
    /\ calls' = <<>> /\ line' = NoLine /\ log' = <<>>
    /\ UNCHANGED <<remote_address, unit_address, is_pairing, pairing_timeout,
                   data, pair_callback, data_callback, task, pc, cancel, now>>

(* status byte 18: every speed mode code with the three flag bits clear *)
(* and set, and code 24 with every value of the flag bits               *)
FlagRaws == {c + 32 * t : c \in 0..31, t \in {0, 7}} \cup {24 + 32 * t : t \in 0..7}

FlagLines ==
    {InLine("frame", " I", Unit1, NoAddr, "31DA", 29,
            WithField(Status58a, 36, Hex2(r)), FALSE) : r \in FlagRaws}

MainLines ==
    FlagLines \cup {Garbage, InLine("frame", " I", Unit1, NoAddr, "31DA", 1, <<0, 0>>, FALSE)}

(* the program started with the addresses of settings.json, or with the   *)
(* address it draws when the file has none                                *)
InitMain ==
    /\ remote_address \in {Remote1, AddrOf(29, 999999)}
    /\ unit_address \in {None, Unit1}
    /\ is_pairing = FALSE
    /\ pairing_timeout = 0
    /\ sequence_number = 0
    /\ pair_callback = FALSE
    /\ data_callback = FALSE
    /\ data = EmptyData
    /\ task = TRUE
    /\ pc = "sleep"
    /\ cancel = FALSE
    /\ now = 0
    /\ op = NoCall
    /\ line = NoLine
    /\ tx = <<>>
    /\ calls = <<>>
    /\ log = <<>>

NextMain ==
    \/ main_loop_idle
    \/ (\E l \in MainLines : main_loop_task(l))

SpecMain == InitMain /\ [][NextMain]_vars

(* the lines of a handshake, a status frame of either unit and a text *)
MainPairLines ==
    ReplyLines \cup ReplyVariants \cup {Garbage}
    \cup {InLine("frame", " I", a1, NoAddr, "31DA", 29, Status58a, FALSE) :
             a1 \in {Unit1, Unit2}}

(* main.py with its command line: pair, a command, the loop, the clock *)
NextMainPair ==
    \/ (sequence_number < MaxSeq /\ main_pair)
    \/ (\E c \in {"auto", "night"} : sequence_number < MaxSeq /\ main_command(c))
    \/ main_loop_idle
    \/ (\E l \in MainPairLines : main_loop_task(l))
    \/ Tick

SpecMainPair == InitMain /\ [][NextMainPair]_vars

-----------------------------------------------------------------------------
(* Properties *)

(* the step processed a line: only receive_line leaves line' set *)
LineStep == line' # NoLine

(* the four conditions of the handshake reply, on the frame f *)
ReplyConditions(f) ==
    /\ f.VERB = "RQ"
    /\ f.CODE = "10E0"
    /\ f.ADDR2 = remote_address
    /\ f.PAYLOAD = <<6, 3>>

(* the line is a frame of the grammar and nothing else, and its payload has *)
(* the declared length                                                      *)
WholeFrame(f) == f.kind = "frame" /\ ~f.tail /\ Len(f.PAYLOAD) = 2 * f.PAYLEN

(* C1: while a pairing attempt is pending and the time has not passed the   *)
(* deadline, processing a frame (grammar-valid, payload of the declared     *)
(* length) with VERB RQ, CODE 10E0, ADDR2 the remote's own address and      *)
(* PAYLOAD 63 sets unit_address to the frame's ADDR1, ends the pairing      *)
(* attempt and invokes the registered pairing-success callback exactly once *)
(* with (remote_address, ADDR1).                                            *)
C1_PairingSuccess ==
    [][(/\ LineStep
        /\ is_pairing
        /\ now <= pairing_timeout
        /\ WholeFrame(line')
        /\ ReplyConditions(line'))
       => (/\ unit_address' = line'.ADDR1
           /\ ~is_pairing'
           /\ pair_callback =>
                calls' = <<Call("pair_callback", remote_address, line'.ADDR1, EmptyData)>>)]_vars

C1_Witness ==
    /\ WholeFrame(line)
    /\ ReplyConditions(line)
    /\ log = <<"Pairing success">>
    /\ unit_address = line.ADDR1
    /\ ~is_pairing
    /\ now <= pairing_timeout
    /\ calls = <<Call("pair_callback", remote_address, line.ADDR1, EmptyData)>>

(* the step evaluated the timeout check of line 216 with the pairing attempt *)
(* still pending: a matched frame of the declared length, pairing pending,  *)
(* and no reply accepted just before                                        *)
CheckWhilePending ==
    /\ LineStep
    /\ ReMatch(line') /\ LengthOk(line')
    /\ is_pairing
    /\ ~ReplyConditions(line')

(* C3: when the timeout check is evaluated while a pairing attempt is       *)
(* pending, now > deadline makes the state Idle (is_pairing false and no    *)
(* unit_address bound), and now <= deadline leaves the attempt pending and  *)
(* unit_address as it was.                                                  *)
C3_TimeoutCheck ==
    [][CheckWhilePending
       => (/\ now > pairing_timeout => (~is_pairing' /\ unit_address' = None)
           /\ now <= pairing_timeout => (is_pairing' /\ unit_address' = unit_address))]_vars

C3_Witness ==
    /\ log = <<"Pairing timeout">>
    /\ ReMatch(line) /\ LengthOk(line) /\ ~ReplyConditions(line)
    /\ now > pairing_timeout
    /\ ~is_pairing
    /\ unit_address = None

C3_WitnessPending ==
    /\ ReMatch(line) /\ LengthOk(line) /\ ~ReplyConditions(line)
    /\ log = <<>>
    /\ now = pairing_timeout
    /\ is_pairing
    /\ unit_address = Unit1

(* C8: processing a line gives unit_address a new non-null value only if a  *)
(* pairing attempt is pending and the frame has VERB RQ, CODE 10E0, ADDR2   *)
(* the remote's own address and PAYLOAD 63; when no attempt is pending, or  *)
(* when the frame fails one of the four conditions and the deadline has not *)
(* passed, unit_address and the pairing state are unchanged.                *)
C8_BoundOnlyByHandshake ==
    [][LineStep
       => (/\ (unit_address' # unit_address /\ unit_address' # None)
                => (is_pairing /\ ReplyConditions(line'))
           /\ (~is_pairing \/ (~ReplyConditions(line') /\ now <= pairing_timeout))
                => UNCHANGED <<unit_address, is_pairing>>)]_vars

C8_Witness ==
    /\ line \in ReplyLines
    /\ line.VERB = " I" /\ line.CODE = "10E0"
    /\ line.ADDR2 = remote_address /\ line.PAYLOAD = <<6, 3>>
    /\ is_pairing
    /\ now <= pairing_timeout
    /\ unit_address = Unit1

(* the worker is alive: created, asleep or draining the transport *)
WorkerRuns == task /\ pc \in {"sleep", "drain"} /\ ~cancel

(* C2: once a pairing attempt is pending and its deadline has passed, the    *)
(* fairly scheduled worker eventually returns the state to not-pairing,      *)
(* whether or not any line arrives.  (The worker being stopped or having     *)
(* died is not held against the claim.)                                      *)
C2_StalePairingEnds ==
    (is_pairing /\ now > pairing_timeout /\ WorkerRuns)
        ~> (~is_pairing \/ ~WorkerRuns)

IsTimeoutCall(c) == c.cb = "on_pairing_timeout"

(* C4: every transition from Pairing to Idle caused by the deadline elapsing *)
(* invokes the pairing-timeout callback exactly once.                        *)
C4_TimeoutCallback ==
    [][(is_pairing /\ ~is_pairing' /\ log' # <<>> /\ log'[Len(log')] = "Pairing timeout")
       => Len(SelectSeq(calls', IsTimeoutCall)) = 1]_vars

(* C5: the sequence counter is always in 0..999, and every pair()/command() *)
(* frame carries it rendered as exactly three digits.                       *)
C5_SequenceWraps ==
    /\ sequence_number \in 0..999
    /\ (tx # <<>> /\ tx[1].VERB = " I") => Len(tx[1].SEQNR) = 3

(* the symbolic-command table of the specification: code, length, payload *)
SymbolicCommand(c) ==
    CASE c = "night"   -> <<"22F8", <<0, 0, 3>>, <<6, 3, 0, 2, 0, 3>>>>
      [] c = "auto"    -> <<"22F1", <<0, 0, 3>>, <<6, 3, 0, 3, 0, 4>>>>
      [] c = "low"     -> <<"22F1", <<0, 0, 3>>, <<6, 3, 0, 2, 0, 4>>>>
      [] c = "high"    -> <<"22F1", <<0, 0, 3>>, <<6, 3, 0, 4, 0, 4>>>>
      [] c = "timer10" -> <<"22F3", <<0, 0, 3>>, <<6, 3, 0, 0, 0, 10>>>>
      [] c = "timer20" -> <<"22F3", <<0, 0, 3>>, <<6, 3, 0, 0, 1, 4>>>>
      [] c = "timer30" -> <<"22F3", <<0, 0, 3>>, <<6, 3, 0, 0, 1, 14>>>>

(* C6: command(name) with a name outside {night, auto, low, high, timer10,  *)
(* timer20, timer30} writes nothing and leaves the sequence counter, the    *)
(* pairing state, the deadline and unit_address unchanged; with a name of   *)
(* the table exactly one frame with that name's code, length and payload is *)
(* written.                                                                 *)
C6_CommandTable ==
    [][\A c \in CommandInputs :
          op' = Op("command", c)
          => IF c \in {"night", "auto", "low", "high", "timer10", "timer20", "timer30"}
             THEN /\ Len(tx') = 1
                  /\ <<tx'[1].CODE, tx'[1].PAYLEN, tx'[1].PAYLOAD>> = SymbolicCommand(c)
             ELSE /\ tx' = <<>>
                  /\ UNCHANGED <<sequence_number, is_pairing, pairing_timeout,
                                 unit_address>>]_vars

C6_Witness ==
    /\ op = Op("command", "boost")
    /\ tx = <<>>
    /\ sequence_number > 0
    /\ is_pairing

(* C7: request_data() writes exactly one frame                              *)
(* "RQ --- {remote} {unit} --:------ 31DA 001 00" and leaves the sequence   *)
(* counter, the pairing state, the deadline, unit_address and the cached    *)
(* status report unchanged.                                                 *)
C7_RequestData ==
    [][op' = Op("request_data", "")
       => (/\ tx' = <<[VERB |-> "RQ", SEQNR |-> <<-1, -1, -1>>,
                       ADDR1 |-> remote_address, ADDR2 |-> unit_address,
                       ADDR3 |-> NoAddr, CODE |-> "31DA",
                       PAYLEN |-> <<0, 0, 1>>, PAYLOAD |-> <<0, 0>>]>>
           /\ UNCHANGED <<sequence_number, is_pairing, pairing_timeout,
                          unit_address, data>>)]_vars

C7_Witness ==
    /\ op = Op("request_data", "")
    /\ Len(tx) = 1 /\ tx[1].CODE = "31DA" /\ tx[1].ADDR2 = Unit2
    /\ unit_address = Unit2
    /\ data # EmptyData
    /\ sequence_number > 0

(* C9: whatever line is processed, in whatever pairing or bound state, the  *)
(* worker is still running afterwards and goes on to the next line.         *)
C9_LoopSurvivesLine ==
    [][LineStep => (task' /\ pc' = "drain")]_vars

(* C10: a line that does not match the grammar as a whole, a frame followed *)
(* by further characters included, is dropped: no change of the pairing     *)
(* state, unit_address or the cached status report, no callback, and the    *)
(* loop goes on to the next line.                                           *)
C10_MalformedDropped ==
    [][(LineStep /\ ~(line'.kind = "frame" /\ ~line'.tail))
       => (/\ UNCHANGED <<is_pairing, unit_address, data>>
           /\ calls' = <<>>
           /\ pc' = "drain")]_vars

-----------------------------------------------------------------------------
(* Length check and status dispatch *)

(* the line carries a frame of the grammar whose payload has not twice as   *)
(* many characters as PAYLEN declares bytes                                 *)
LengthDiffers(f) == f.kind = "frame" /\ Len(f.PAYLOAD) # 2 * f.PAYLEN

(* C11: a line matching the grammar whose payload length is not twice its *)
(* PAYLEN is discarded: the pairing state, the unit address and the cached *)
(* report stay as they are and no callback is invoked.                    *)
C11_LengthMismatchDropped ==
    [][(LineStep /\ LengthDiffers(line'))
          => (UNCHANGED <<is_pairing, unit_address, data>> /\ calls' = <<>>)]_vars

IsDataCall(c) == c.cb = "data_callback"

DataCalls(cs) == {i \in DOMAIN cs : IsDataCall(cs[i])}

(* the line carries a status frame sent by the unit bound before the step *)
StatusFromBoundUnit(f) ==
    f.kind = "frame" /\ f.CODE = "31DA" /\ unit_address # None /\ f.ADDR1 = unit_address

(* C12: a status frame of the bound unit whose payload has not exactly 58 *)
(* characters is rejected: the cached report stays as it is and the data  *)
(* callback is not invoked.                                               *)
C12_StatusLengthRejected ==
    [][(LineStep /\ StatusFromBoundUnit(line') /\ Len(line'.PAYLOAD) # 58)
          => (UNCHANGED data /\ DataCalls(calls') = {})]_vars

(* the line carries a frame of declared length that is a status message of *)
(* the unit bound when the status block is reached                         *)
StatusCase(f) ==
    /\ f.kind = "frame" /\ Len(f.PAYLOAD) = 2 * f.PAYLEN
    /\ f.CODE = "31DA" /\ unit_address' # None /\ f.ADDR1 = unit_address'

(* C13: the cached report is replaced and a registered data callback is   *)
(* invoked once exactly for a frame of declared length with code 31DA from *)
(* the bound unit; any other line leaves the report alone and invokes no  *)
(* data callback.                                                         *)
C13_StatusExactlyWhen ==
    [][LineStep =>
          IF StatusCase(line')
          THEN /\ data' = <<StatusReport(line'.PAYLOAD)>>
               /\ (data_callback => Cardinality(DataCalls(calls')) = 1)
          ELSE UNCHANGED data /\ DataCalls(calls') = {}]_vars

(* the line carries a status frame of the bound unit with 58 payload      *)
(* characters                                                             *)
Decoded58(f) == StatusCase(f) /\ Len(f.PAYLOAD) = 58

(* C14: the report cached after decoding a payload of 58 characters is a  *)
(* function of that payload alone: whatever report was cached before and  *)
(* whatever the rest of the state, the same payload gives the same report *)
(* and nothing of the old report is kept.                                 *)
C14_HistoryFree ==
    [][(LineStep /\ Decoded58(line')) => data' = <<StatusReport(line'.PAYLOAD)>>]_vars

(* a payload without air quality has been decoded and is what the cache  *)
(* holds; the other sample payload carries an air quality                *)
C14_Witness ==
    /\ line.kind = "frame" /\ line.CODE = "31DA" /\ line.ADDR1 = unit_address
    /\ line.PAYLOAD = Status58a
    /\ data = <<StatusReport(Status58a)>>
    /\ data[1].air_quality = Null
    /\ StatusReport(Status58b).air_quality # Null

-----------------------------------------------------------------------------
(* Pairing broadcast and address integer *)

RECURSIVE BitOr(_, _)
BitOr(a, b) ==
    IF a = 0 THEN b
    ELSE IF b = 0 THEN a
    ELSE (IF a % 2 = 1 \/ b % 2 = 1 THEN 1 ELSE 0) + 2 * BitOr(a \div 2, b \div 2)

Paired6(n) ==
    <<6, 3, 2, 2, 15, 8>> \o ZeroPad(HexDigits(n), 6)
    \o <<0, 1, 1, 0, 14, 0>> \o ZeroPad(HexDigits(n), 6)

(* C15: for every remote address of the form "CC:IIIIII" the payload      *)
(* written by pair() is 6322F8, the address integer as 6 hex digits,       *)
(* 0110E0 and the 6 hex digits again: 24 characters, as the declared       *)
(* length 012 says.                                                        *)
C15_PairPayload ==
    op.name = "pair" =>
        /\ Len(tx) = 1
        /\ tx[1].PAYLEN = <<0, 1, 2>>
        /\ tx[1].PAYLOAD = Paired6(RemoteAddressInt(remote_address))
        /\ Len(tx[1].PAYLOAD) = 24

(* C16: the integer pair() computes for a textual address is             *)
(* (class << 18) | id, class and id are n >> 18 and n & 0x3FFFF, no other *)
(* textual address has the same integer, and "29:012345" gives 0x743039.  *)
C16_AddressInteger ==
    op.name = "pair" =>
        LET n == RemoteAddressInt(remote_address)
            class == IntDec(remote_address.cls)
            id == IntDec(remote_address.id)
        IN  /\ n = BitOr(class * (2 ^ 18), id)
            /\ n \div (2 ^ 18) = class
            /\ n % (2 ^ 18) = id
            /\ \A a \in AddrInputs : a # remote_address => RemoteAddressInt(a) # n
            /\ (remote_address = Remote1 => n = 7614521)

-----------------------------------------------------------------------------
(* Status decoder *)

(* the status frame read in the last step has been decoded into the cache *)
StatusDecoded == line.kind = "frame" /\ line.CODE = "31DA" /\ data # EmptyData

RawAt(f, width) == IntHex(Slice(line.PAYLOAD, f[2], f[2] + width))

Decoded(f) == data[1][f[1]]

(* C17: each temperature field is the signed 16-bit value s of its two   *)
(* bytes divided by 100 when -27315 <= s <= 32766 and absent otherwise;   *)
(* no value outside the range is held at its ends.                        *)
C17_Temperatures ==
    StatusDecoded =>
        \A f \in TemperatureFields :
            LET r == RawAt(f, 4)
                s == IF r >= 32768 THEN r - 65536 ELSE r
            IN  Decoded(f) = IF -27315 <= s /\ s <= 32766
                             THEN <<[num |-> s, den |-> 100]>> ELSE <<>>

(* raw 0x7FFF in the exhaust temperature has been decoded as absent *)
C17_Witness ==
    /\ StatusDecoded
    /\ RawAt(<<"exhaust_temperature", 14>>, 4) = 32767
    /\ data[1].exhaust_temperature = <<>>

(* C18: the percentages are raw/2 when raw <= 200, the humidities raw    *)
(* when raw <= 100, the CO2 level raw when raw <= 0x3FFF, the flows       *)
(* raw/100 when raw <= 0x7FFF, and absent otherwise; the remaining time   *)
(* is the raw 16-bit value.                                               *)
C18_RangeChecked ==
    StatusDecoded =>
        /\ \A f \in PercentFields :
               Decoded(f) = IF RawAt(f, 2) <= 200
                            THEN <<[num |-> RawAt(f, 2), den |-> 2]>> ELSE <<>>
        /\ \A f \in HumidityFields :
               Decoded(f) = IF RawAt(f, 2) <= 100
                            THEN <<[num |-> RawAt(f, 2), den |-> 1]>> ELSE <<>>
        /\ data[1].co2_level =
               (LET r == RawAt(<<"co2_level", 6>>, 4)
                IN  IF r <= 16383 THEN <<[num |-> r, den |-> 1]>> ELSE <<>>)
        /\ \A f \in FlowFields :
               Decoded(f) = IF RawAt(f, 4) <= 32767
                            THEN <<[num |-> RawAt(f, 4), den |-> 100]>> ELSE <<>>
        /\ data[1].remaining_time = RawAt(<<"remaining_time", 42>>, 4)

(* raw 201 in the bypass position has been decoded as absent *)
C18_Witness ==
    /\ StatusDecoded
    /\ RawAt(<<"bypass_position", 34>>, 2) = 201
    /\ data[1].bypass_position = <<>>

CapabilityOrder ==
    <<"Off", "Away", "Timer", "Boost", "Auto", "Speed 4", "Speed 5", "Speed 6",
      "Speed 7", "Speed 8", "Speed 9", "Speed 10", "Night", "Reserved",
      "Post Heater", "Pre Heater">>

Names(seq) == {seq[i] : i \in DOMAIN seq}

(* C19: the capabilities hold the name number i of the declaration order *)
(* exactly when bit 15 - i of the capability word is set; 0x8000 gives   *)
(* only "Off" and 0x0000 none.                                           *)
C19_Capabilities ==
    StatusDecoded =>
        LET r == RawAt(<<"capability_flags", 30>>, 4)
            caps == Names(data[1].capability_flags)
        IN  /\ \A i \in 0..15 :
                   (CapabilityOrder[i + 1] \in caps) <=> ((r \div (2 ^ (15 - i))) % 2 = 1)
            /\ caps \subseteq Names(CapabilityOrder)
            /\ (r = 32768 => caps = {"Off"})
            /\ (r = 0 => caps = {})

(* the capability word 0x8000 has been decoded as "Off" alone *)
C19_Witness ==
    /\ StatusDecoded
    /\ RawAt(<<"capability_flags", 30>>, 4) = 32768
    /\ data[1].capability_flags = <<"Off">>

SpeedLabels ==
    <<"Speed 1", "Speed 2", "Speed 3", "Speed 4", "Speed 5", "Speed 6", "Speed 7",
      "Speed 8", "Speed 9", "Speed 10">>

OverrideLabels ==
    <<"Speed 1 Temporary Override", "Speed 2 Temporary Override",
      "Speed 3 Temporary Override", "Speed 4 Temporary Override",
      "Speed 5 Temporary Override", "Speed 6 Temporary Override",
      "Speed 7 Temporary Override", "Speed 8 Temporary Override",
      "Speed 9 Temporary Override", "Speed 10 Temporary Override">>

SpeedModeLabel(code) ==
    CASE code = 0 -> "OFF"
      [] code \in 1..10 -> SpeedLabels[code]
      [] code \in 11..20 -> OverrideLabels[code - 10]
      [] code = 21 -> "Away"
      [] code = 22 -> "Abs Minimum Speed"
      [] code = 23 -> "Abs Maximum Speed"
      [] code = 24 -> "Auto"
      [] code = 25 -> "Night"
      [] code \in 26..31 -> "Unknown"

(* C20: the speed mode label is that of the low five bits of status byte *)
(* 18 (0 OFF, 1-10 Speed n, 11-20 Speed n Temporary Override, 21 Away,   *)
(* 22 Abs Minimum Speed, 23 Abs Maximum Speed, 24 Auto, 25 Night, 26-31  *)
(* Unknown); bits 7, 6 and 5 are the fault, filter and defrost flags.    *)
C20_SpeedModeLabel ==
    StatusDecoded =>
        LET r == RawAt(<<"flags", 36>>, 2)
        IN  /\ data[1].flags.active_speed_mode = SpeedModeLabel(r % 32)
            /\ data[1].flags.fault_active = ((r \div 128) % 2 = 1)
            /\ data[1].flags.filter_dirty = ((r \div 64) % 2 = 1)
            /\ data[1].flags.defrost_active = ((r \div 32) % 2 = 1)

-----------------------------------------------------------------------------
(* The caller's pair() *)

(* the step is a call of pair() whose write succeeded *)
PairStep == op' = Op("pair", "")

(* " I {seq:03} --:------ --:------ {remote} 1FC9 012 {payload}" *)
IsBroadcast(f, seq, remote) ==
    /\ f.VERB = " I" /\ f.SEQNR = ZeroPad(DecDigits(seq), 3)
    /\ f.ADDR1 = NoAddr /\ f.ADDR2 = NoAddr /\ f.ADDR3 = remote
    /\ f.CODE = "1FC9" /\ f.PAYLEN = <<0, 1, 2>>

(* C21: pair() called with no attempt pending, a unit bound or not, writes *)
(* one pairing broadcast with the counter's value before the call, adds    *)
(* one to the counter and leaves the remote pairing with the deadline the  *)
(* time of the call plus TIMEOUT_PAIRING.                                  *)
C21_PairStartsAttempt ==
    [][(PairStep /\ ~is_pairing) =>
          /\ Len(tx') = 1
          /\ IsBroadcast(tx'[1], sequence_number, remote_address)
          /\ sequence_number' = sequence_number + 1
          /\ is_pairing'
          /\ pairing_timeout' = now + TIMEOUT_PAIRING
          /\ UNCHANGED unit_address]_vars

(* pair() has been called at a time after 0 with a unit bound and no     *)
(* attempt before it                                                     *)
C21_Witness ==
    /\ op = Op("pair", "") /\ sequence_number = 1 /\ now > 0
    /\ unit_address = Unit1 /\ is_pairing /\ pairing_timeout = now + TIMEOUT_PAIRING

(* C22: in main.py pair() called with no unit address bound transmits the *)
(* pairing broadcast and starts an attempt, as it does with a unit bound. *)
C22_MainPairFromIdle ==
    [][(op'.name = "pair" /\ unit_address = None) =>
          /\ tx' # <<>>
          /\ \A i \in DOMAIN tx' : IsBroadcast(tx'[i], sequence_number, remote_address)
          /\ is_pairing']_vars

-----------------------------------------------------------------------------
(* Transport failure *)

(* C23: when the write of pair() or command() fails, the error reaches the *)
(* caller and the sequence counter, the pairing flag, the deadline and the *)
(* unit address keep the values they had before the call.                  *)
C23_WriteFailureKeepsState ==
    [][(log' = GatewayError /\ op'.name \in {"pair", "command"}) =>
          /\ UNCHANGED <<sequence_number, is_pairing, pairing_timeout, unit_address>>
          /\ tx' = <<>>]_vars

(* pair() has failed after a command was sent: no attempt is pending *)
C23_Witness ==
    /\ log = GatewayError /\ op = Op("pair", "")
    /\ sequence_number = 1 /\ ~is_pairing /\ pairing_timeout = 0 /\ now > 0

-----------------------------------------------------------------------------
(* Cancellation and atomicity of the inner loop *)

(* the worker is inside its inner loop: it has read zero or more lines and *)
(* dispatched each of them, and has not yet met "no data"                  *)
MidCycle == pc = "drain"

(* C24: the cancellation requested by stop_task() reaches the worker only *)
(* at its sleep (or before its first step), never inside the inner loop,  *)
(* where every line read is dispatched in the step that reads it;         *)
(* stop_task(), pair(), command() and request_data() never run inside the *)
(* inner loop either.                                                     *)
C24_CooperativeCancel ==
    [][/\ ((cancel /\ ~cancel') => (~MidCycle /\ line' = NoLine /\ pc' = "none"))
       /\ ((~cancel /\ cancel') => ~MidCycle)
       /\ (op' # NoCall => (~MidCycle /\ line' = NoLine /\ pc' = pc))
       /\ (MidCycle => (pc' \in {"drain", "sleep"} \/ (pc' = "none" /\ line' # NoLine)))]_vars

(* stop_task() has been called while the worker sleeps after a cycle that *)
(* decoded a status frame                                                 *)
C24_Witness ==
    /\ task /\ pc = "sleep" /\ cancel
    /\ data # EmptyData

-----------------------------------------------------------------------------
(* Frames written *)

(* the step is a call of an encoder that sends: pair(), request_data(), or *)
(* command() with a name of the table                                      *)
SendingCall ==
    \/ op'.name \in {"pair", "request_data"}
    \/ (op'.name = "command" /\ op'.arg \in CommandNames)

(* C25: the worker writes nothing, also when an attempt times out: each  *)
(* step writes one frame if it is a call of pair(), of command() with a  *)
(* known name or of request_data(), and none otherwise, so the frames    *)
(* written are as many as those calls.                                   *)
C25_NoAutomaticRetry ==
    [][Len(tx') = IF SendingCall THEN 1 ELSE 0]_vars

(* the attempt started by the one call of pair() has timed out in the   *)
(* worker, which wrote nothing                                          *)
C25_Witness ==
    /\ log = <<"Pairing timeout">> /\ line # NoLine
    /\ sequence_number = 1 /\ ~is_pairing /\ tx = <<>>

-----------------------------------------------------------------------------
(* Pairing state *)

IsPairCall(c) == c.cb = "pair_callback"

(* C26: when the pair callback is invoked with (remote, unit) for a frame, *)
(* the remote is paired to that unit when the frame has been processed,    *)
(* wherever the time stands against the deadline.                          *)
C26_BindingKept ==
    [][\A i \in DOMAIN calls' :
          IsPairCall(calls'[i]) =>
              (unit_address' = calls'[i].unit /\ unit_address' # None /\ ~is_pairing')]_vars

(* C27: the remote is idle (not pairing, no unit), pairing (no unit) or  *)
(* paired (not pairing, a unit): no attempt is pending while a unit      *)
(* address is bound.                                                     *)
C27_StateExclusive == ~(is_pairing /\ unit_address # None)

(* "CC:IIIIII": two and six decimal digits *)
IsDeviceAddress(a) ==
    /\ Len(a.cls) = 2 /\ Len(a.id) = 6
    /\ \A i \in 1..2 : a.cls[i] \in 0..9
    /\ \A i \in 1..6 : a.id[i] \in 0..9

(* C28: a bound unit address is a device address "CC:IIIIII", never the  *)
(* form "--:------".                                                     *)
C28_UnitIsDevice == unit_address # None => IsDeviceAddress(unit_address)

(* C29: pair() called while an attempt is pending writes nothing and     *)
(* leaves the deadline and the sequence counter as they are.             *)
C29_PairWhilePairing ==
    [][(PairStep /\ is_pairing) =>
          (tx' = <<>> /\ UNCHANGED <<pairing_timeout, sequence_number>>)]_vars

(* C30: request_data() writes a frame only with a bound device address  *)
(* in its unit field; with no unit bound it writes nothing.             *)
C30_RequestNeedsUnit ==
    [][op'.name = "request_data" =>
          /\ (unit_address = None => tx' = <<>>)
          /\ \A i \in DOMAIN tx' : IsDeviceAddress(tx'[i].ADDR2)]_vars

-----------------------------------------------------------------------------
(* Repeated handshake replies *)

(* the invocations of the pair callback among the calls cs *)
PairCalls(cs) == {i \in DOMAIN cs : IsPairCall(cs[i])}

(* C31: between two consecutive calls of pair() the pair callback is     *)
(* invoked at most once, however often the unit repeats its reply: one   *)
(* frame invokes it at most once, the step that invokes it starts with   *)
(* an attempt pending and ends with none, and only pair() makes an       *)
(* attempt pending again.                                                *)
C31_CallbackOncePerAttempt ==
    [][/\ Cardinality(PairCalls(calls')) <= 1
       /\ (PairCalls(calls') # {} => (is_pairing /\ ~is_pairing'))
       /\ ((~is_pairing /\ is_pairing') => PairStep)]_vars

(* after the one call of pair() bound the unit, the unit's reply has been *)
(* read again and the registered callback was not invoked for it         *)
C31_Witness ==
    /\ pair_callback /\ sequence_number = 1 /\ ~is_pairing
    /\ unit_address = Unit2
    /\ line = InLine("frame", "RQ", Unit2, Remote1, "10E0", 1, <<6, 3>>, FALSE)
    /\ calls = <<>> /\ log = <<>>

-----------------------------------------------------------------------------
(* The polling worker's life cycle *)

(* a _loop_task coroutine exists that has not finished *)
WorkerAlive == pc # "none"

(* C32: at most one polling worker exists at any time: while no task is  *)
(* recorded no worker is alive, a step creates a worker only when none   *)
(* is alive, and start_task() with a task recorded creates none and      *)
(* leaves the worker where it stands.                                    *)
C32_SingleWorker ==
    [][/\ (~task => ~WorkerAlive)
       /\ ((pc' = "created" /\ pc # "created") => (~WorkerAlive /\ ~task))
       /\ ((start_task /\ task) => UNCHANGED <<task, pc, cancel>>)]_vars

(* a second worker has been created by start_task() after the first one, *)
(* which had decoded a status frame, was stopped                         *)
C32_Witness ==
    /\ task /\ pc = "created" /\ ~cancel
    /\ data # EmptyData

(* C33: after a call of start_task(), the last of any sequence of        *)
(* start_task() and stop_task() calls, a polling worker is alive with no *)
(* cancellation pending on it, also when the call follows stop_task()    *)
(* before the cancelled worker has run its cleanup.                      *)
C33_LastStartWins ==
    [][start_task => (pc' # "none" /\ ~cancel')]_vars

=============================================================================
